---------------------------- MODULE Spec2Model ----------------------------
(***************************************************************************)
(* Model of the `workload create` command of the apps CLI plugin           *)
(* (pkg/commands/workload_create.go) and of the WorkloadOptions helpers    *)
(* it calls (pkg/commands/workload.go): LoadInputWorkload,                 *)
(* validateNamespace, ApplyOptionsToWorkload, PublishLocalSource, Create   *)
(* and Update, together with the wait phase (wait.Race over the readiness  *)
(* watcher and the log tailer).                                            *)
(*                                                                         *)
(* One invocation of the command is the sequence of actions                *)
(*   Invoke -> ExecLookup -> ExecPublish -> ExecCreate                     *)
(*          -> RaceSelect, WatcherObserves, WatcherReturns, TailerReturns, *)
(*             DeadlineExpires                                             *)
(* and a finished invocation may be followed by another one against the    *)
(* cluster state the earlier ones left behind (Spec). SpecWrite calls      *)
(* Create and Update on their own; SpecMerge runs the command with flags   *)
(* on top of a --file.                                                     *)
(***************************************************************************)
EXTENDS Naturals, Sequences, FiniteSets, TLC

VARIABLES
    nsExists,     \* cluster: the namespaces that exist
    workloads,    \* cluster: function from <<namespace, name>> to the stored workload
    registry,     \* registry: the set of source images pushed so far
    opts,         \* WorkloadCreateOptions of the running invocation (flags, args, --file input)
    pc,           \* position of the invocation
    workload,     \* Exec's local `workload`
    ok,           \* the boolean Create (Exec's okToCreate) or Update returned
    out,          \* what the invocation printed, in order
    calls,        \* requests the invocation issued (cluster, registry, prompt, workers), in order
    ret,          \* what Exec returned: [err, silenced], err = "none" while running, "nil" for nil
    silenceUsage, \* cmd.SilenceUsage
    workers,      \* wait.Race: the workers handed to Race, in order
    running,      \* wait.Race: the workers whose goroutine has not returned yet
    errs,         \* wait.Race: the results the workers delivered, in order of arrival
    ctxDone,      \* wait.Race: the deadline context is done
    resultsAtExpiry, \* wait.Race: how many results had arrived when the deadline expired
    observed,     \* readiness watcher: the Ready status it observed on its target ("" = none yet)
    cluster0,     \* history: the cluster's workloads when the invocation started
    invocations   \* number of invocations started so far

vars == <<nsExists, workloads, registry, opts, pc, workload, ok, out, calls,
          ret, silenceUsage, workers, running, errs, ctxDone, resultsAtExpiry,
          observed, cluster0, invocations>>

---------------------------------------------------------------------------
(* Bounds of the model *)

\* The command is invoked at most this many times, one invocation after the other.
MaxInvocations == 2

---------------------------------------------------------------------------
(* Values *)

DefaultNamespace == "default"
OtherNamespace == "foo"
Namespaces == {DefaultNamespace, OtherNamespace}

\* cartov1alpha1.WorkloadMavenParam, and the names of the params of the model.
WorkloadMavenParam == "maven"
ParamKeys == {WorkloadMavenParam, "p1", "k1", "k2"}

\* The value of a param: a scalar (text) or an object with the fields of a
\* cartov1alpha1.MavenSource; present is FALSE for a param the spec does not hold.
NoParam ==
    [present |-> FALSE, text |-> "", artifactId |-> "", groupId |-> "",
     version |-> "", type |-> ""]
Scalar(v) == [NoParam EXCEPT !.present = TRUE, !.text = v]
MavenSource(a, g, v, t) ==
    [NoParam EXCEPT !.present = TRUE, !.artifactId = a, !.groupId = g,
                    !.version = v, !.type = t]

\* The keys of the key/value maps of the model (labels, annotations, env, build
\* env), and the mark of a key a map does not hold.
MapKeys == {"foo", "k1", "k2"}
Absent == "<absent>"
NoEntries == [k \in MapKeys |-> Absent]

\* cartov1alpha1.Workload, restricted to the fields the commands read or merge.
\* "" is the Go zero value (field absent).
EmptyWorkload ==
    [name |-> "", namespace |-> "", type |-> "", app |-> "", gitURL |-> "",
     gitTag |-> "", subPath |-> "", sa |-> "", srcImage |-> "", image |-> "",
     params |-> [k \in ParamKeys |-> NoParam], labels |-> NoEntries,
     annotations |-> NoEntries, env |-> NoEntries, buildEnv |-> NoEntries]

\* The flags the model parses from the command line, and the environment
\* variables flags.FlagToEnvVar names for them.
FlagNames == {"type", "label"}
FlagToEnvVar(f) == IF f = "type" THEN "TANZU_APPS_TYPE" ELSE "TANZU_APPS_LABEL"
EnvVars == {FlagToEnvVar(f) : f \in FlagNames}

\* flags.EnvVarAllowedList, as far as the flags of the model go.
EnvVarAllowedList == {"TANZU_APPS_TYPE"}

\* WorkloadOptions after flag parsing, all flags at their default (DefineFlags).
\* NsChanged, SubPathChanged and SAChanged are cobra's Flags().Changed(...) of
\* --namespace, --sub-path and --service-account. FileExists says whether os.Open
\* of FilePath succeeds, File is the workload that file holds, Stdin the workload
\* on standard input. Changed holds the names of the other flags cobra reports as
\* Changed; an entry of ParamsYaml is a parsed "key=value" (remove FALSE) or "key-"
\* (remove TRUE) of --param-yaml, in command-line order. Labels, Annotations,
\* Params, Env and BuildEnv hold the values of --label, --annotation, --param,
\* --env and --build-env in command-line order. Environ is the environment of the process
\* and Args the flags of the command line, for the flags the model parses itself.
DefaultOpts ==
    [Name |-> "", Namespace |-> DefaultNamespace, NsChanged |-> FALSE,
     FilePath |-> "", FileExists |-> FALSE, File |-> EmptyWorkload,
     Stdin |-> EmptyWorkload,
     Yes |-> FALSE, DryRun |-> FALSE, Wait |-> FALSE, Tail |-> FALSE,
     TailTimestamps |-> FALSE, LocalPath |-> "", SourceImage |-> "",
     Type |-> "", App |-> "", GitRepo |-> "", GitTag |-> "", Image |-> "",
     SubPath |-> "", SubPathChanged |-> FALSE,
     ServiceAccountName |-> "", SAChanged |-> FALSE,
     MavenArtifact |-> "", MavenVersion |-> "", MavenGroup |-> "", MavenType |-> "",
     Changed |-> {}, ParamsYaml |-> <<>>, Labels |-> <<>>, Annotations |-> <<>>,
     Params |-> <<>>, Env |-> <<>>, BuildEnv |-> <<>>,
     Environ |-> [v \in EnvVars |-> ""], Args |-> <<>>]

NoRet == [err |-> "none", silenced |-> FALSE]
Nil == [err |-> "nil", silenced |-> FALSE]
Err(e) == [err |-> e, silenced |-> FALSE]
SilenceError(e) == [err |-> e, silenced |-> TRUE]

Msg(m, ns, n) == [msg |-> m, ns |-> ns, name |-> n]
\* A request: the operation, the namespace and name it is about, the timestamps
\* option of a log tail, and what came back (the answer to a prompt, the error of
\* a namespace read).
Call(op, ns, n) == [op |-> op, ns |-> ns, name |-> n, ts |-> FALSE, res |-> ""]
\* A survey prompt about `what` and the answer it got.
Prompt(what, answer) ==
    [op |-> "Prompt", ns |-> "", name |-> what, ts |-> FALSE, res |-> answer]

Key(w) == <<w.namespace, w.name>>

Printed(m) == \E i \in 1..Len(out) : out[i].msg = m
Called(op) == \E i \in 1..Len(calls) : calls[i].op = op
CountCalls(op) == Cardinality({i \in 1..Len(calls) : calls[i].op = op})

---------------------------------------------------------------------------
(* Loading and resolving the workload: workload_create.go 57-70 *)

\* WorkloadOptions.LoadInputWorkload. os.Open(FilePath) yields f = nil exactly when
\* the file cannot be opened; standard input is read only when f = nil and the path
\* is "-". loadFails is workload.Load returning an error (content that does not parse).
LoadInputWorkload(o, loadFails) ==
    LET in == IF ~o.FileExists /\ o.FilePath = "-" THEN o.Stdin ELSE o.File
    IN  IF o.FileExists \/ o.FilePath = "-"
        THEN IF loadFails
             THEN [err |-> "unable to load file", wl |-> EmptyWorkload]
             ELSE [err |-> "nil", wl |-> in]
        ELSE [err |-> "unable to open file", wl |-> EmptyWorkload]

\* workload_create.go 65-67: a name argument replaces the loaded name.
ResolveName(o, wl) ==
    IF o.Name # "" THEN [wl EXCEPT !.name = o.Name] ELSE wl

\* Variant of ResolveNamespace that never lets --namespace replace a loaded
\* namespace.
ResolveNamespaceIfEmpty(o, wl) ==
    IF wl.namespace = "" THEN [wl EXCEPT !.namespace = o.Namespace] ELSE wl

\* workload_create.go 68-70: the loaded namespace is kept unless it is empty or
\* --namespace was passed.
ResolveNamespace(o, wl) ==
    IF wl.namespace = "" \/ o.NsChanged
    THEN [wl EXCEPT !.namespace = o.Namespace]
    ELSE wl

---------------------------------------------------------------------------
(* Namespace validation: workload.go 499-513 *)

\* The outcomes of c.Get on a Namespace: "cluster" answers from the cluster's
\* state (NotFound when the namespace does not exist), "forbidden" is a read the
\* API server refuses.
NsGetOutcomes == {"cluster", "forbidden"}

\* c.Get of the Namespace `name`: the error it returns.
NamespaceGet(nss, nsGet, name) ==
    IF nsGet = "forbidden" THEN "Forbidden"
    ELSE IF name \notin nss THEN "NotFound" ELSE "nil"

\* loadNamespace returns an error only when the read fails with NotFound.
loadNamespace(nss, nsGet, name) ==
    IF NamespaceGet(nss, nsGet, name) = "NotFound" THEN "NotFound" ELSE "nil"

\* validateNamespace: [err, out]
validateNamespace(nss, nsGet, name) ==
    IF loadNamespace(nss, nsGet, name) # "nil"
    THEN [err |-> SilenceError("NotFound"),
          out |-> <<Msg("namespace not found", name, "")>>]
    ELSE [err |-> Nil, out |-> <<>>]

\* workload_create.go 79: the namespace Exec hands to validateNamespace.
NamespaceToValidate(o, wl) == o.Namespace

---------------------------------------------------------------------------
(* Merging the flags into the workload: workload.go 202-390 *)

\* WorkloadSpec.ResetSource: the sources of a workload exclude each other.
ResetSource(wl) ==
    [wl EXCEPT !.gitURL = "", !.gitTag = "", !.subPath = "", !.srcImage = "", !.image = ""]

\* WorkloadSpec.MergeGit: the flags' git source replaces the source; fields the
\* flags leave empty, and the sub-path, are taken over from the former git source.
MergeGit(wl, url, tag) ==
    LET r == ResetSource(wl)
    IN  [r EXCEPT !.gitURL = IF url # "" THEN url ELSE wl.gitURL,
                  !.gitTag = IF tag # "" THEN tag ELSE wl.gitTag,
                  !.subPath = wl.subPath]

\* WorkloadSpec.MergeSourceImage
MergeSourceImage(wl, img) ==
    [ResetSource(wl) EXCEPT !.srcImage = img, !.subPath = wl.subPath]

\* WorkloadSpec.MergeImage
MergeImage(wl, img) == [ResetSource(wl) EXCEPT !.image = img]

\* WorkloadSpec.MergeSubPath
MergeSubPath(wl, p) == [wl EXCEPT !.subPath = p]

\* WorkloadSpec.MergeServiceAccountName: the empty string unsets the field.
MergeServiceAccountName(wl, sa) == [wl EXCEPT !.sa = sa]

\* Workload.MergeLabels for the two labels the flags --app and --type set.
MergeAppLabel(wl, v) == [wl EXCEPT !.app = v]
MergeTypeLabel(wl, v) == [wl EXCEPT !.type = v]

\* parsers.DeletableKeyValue: "key=value" gives the key and the value, "key-" the
\* key alone.
DeletableKeyValue(e) ==
    CASE e = "foo=var" -> <<"foo", "var">>
      [] e = "k1=a" -> <<"k1", "a">>
      [] e = "k1=b" -> <<"k1", "b">>
      [] e = "k2=c" -> <<"k2", "c">>
      [] e = "k1-" -> <<"k1">>
      [] e = "k2-" -> <<"k2">>

\* Variant of ApplyEntry that sets keys and removes none.
ApplyEntrySetOnly(wl, field, e) ==
    LET parts == DeletableKeyValue(e)
    IN  IF Len(parts) = 1 THEN wl ELSE [wl EXCEPT ![field][parts[1]] = parts[2]]

\* workload.go 204-209, 212-217, 314-319, 323-328: the body of the loops over
\* --label, --annotation, --env and --build-env; "key-" removes the key from the
\* map (field) and "key=value" sets it.
ApplyEntry(wl, field, e) ==
    LET parts == DeletableKeyValue(e)
    IN  IF Len(parts) = 1 THEN [wl EXCEPT ![field][parts[1]] = Absent]
        ELSE [wl EXCEPT ![field][parts[1]] = parts[2]]

\* workload.go 203-218, 313-329: the loop over the values es of one of these
\* flags, in their order.
RECURSIVE ApplyEntries(_, _, _)
ApplyEntries(wl, field, es) ==
    IF es = <<>> THEN wl
    ELSE ApplyEntries(ApplyEntry(wl, field, Head(es)), field, Tail(es))

ApplyLabels(wl, es) == ApplyEntries(wl, "labels", es)
ApplyAnnotations(wl, es) == ApplyEntries(wl, "annotations", es)
ApplyEnv(wl, es) == ApplyEntries(wl, "env", es)
ApplyBuildEnv(wl, es) == ApplyEntries(wl, "buildEnv", es)

\* Spec.RemoveParam and Spec.MergeParams: the param is dropped, or holds the
\* given value in place of the one it held.
RemoveParam(wl, k) == [wl EXCEPT !.params[k] = NoParam]
MergeParams(wl, k, v) == [wl EXCEPT !.params[k] = v]

\* workload.go 220-227: the values es of --param, in their order.
RECURSIVE ApplyParams(_, _)
ApplyParams(wl, es) ==
    IF es = <<>> THEN wl
    ELSE LET kv == DeletableKeyValue(Head(es))
             next == IF Len(kv) = 1 THEN RemoveParam(wl, kv[1])
                     ELSE MergeParams(wl, kv[1], Scalar(kv[2]))
         IN  ApplyParams(next, Tail(es))

\* Spec.MergeMavenSource: the fields the source sets are written over the maven
\* param, whose other fields stay.
MergeMavenSource(wl, info) ==
    LET old == wl.params[WorkloadMavenParam]
        over(new, cur) == IF new # "" THEN new ELSE cur
    IN  [wl EXCEPT !.params[WorkloadMavenParam] =
            MavenSource(over(info.artifactId, old.artifactId),
                        over(info.groupId, old.groupId),
                        over(info.version, old.version),
                        over(info.type, old.type))]

\* Variant of MavenSourceViaFlags that looks at --maven-artifact alone.
MavenArtifactGiven(o) == o.MavenArtifact # ""

\* workload.go 229 and 244: one of the maven flags has a value.
MavenSourceViaFlags(o) ==
    o.MavenArtifact # "" \/ o.MavenVersion # "" \/ o.MavenGroup # "" \/ o.MavenType # ""

\* workload.go 230-243: the MavenSource of the maven flags that were passed.
MavenInfo(o) ==
    LET passed(flag, v) == IF flag \in o.Changed THEN v ELSE ""
    IN  MavenSource(passed("maven-artifact", o.MavenArtifact),
                    passed("maven-group", o.MavenGroup),
                    passed("maven-version", o.MavenVersion),
                    passed("maven-type", o.MavenType))

\* workload.go 229-246: the maven flags are merged into the maven param.
ApplyMavenFlags(o, wl) ==
    IF MavenSourceViaFlags(o) THEN MergeMavenSource(wl, MavenInfo(o)) ELSE wl

\* workload.go 253: a "maven=..." entry of --param-yaml is skipped.
SkippedParamYaml(o, p) ==
    ~p.remove /\ p.key = WorkloadMavenParam /\ MavenSourceViaFlags(o)

\* workload.go 248-266: the entries ps of --param-yaml, in their order.
RECURSIVE ApplyParamsYaml(_, _, _)
ApplyParamsYaml(o, wl, ps) ==
    IF ps = <<>> THEN wl
    ELSE LET p == Head(ps)
             next == IF p.remove THEN RemoveParam(wl, p.key)
                     ELSE IF SkippedParamYaml(o, p) THEN wl
                     ELSE MergeParams(wl, p.key, p.value)
         IN  ApplyParamsYaml(o, next, Tail(ps))

\* workload.go 54
MavenOverwrittenNoticeMsg ==
    "Maven configuration flags have overwritten values provided by \"--params-yaml\"."

\* workload.go 254 and Workload.GetNotices: the notices ApplyOptionsToWorkload
\* stashed in the context, one for each skipped entry.
GetNotices(o) ==
    LET skipped == SelectSeq(o.ParamsYaml, LAMBDA p : SkippedParamYaml(o, p))
    IN  [i \in 1..Len(skipped) |-> Msg(MavenOverwrittenNoticeMsg, "", "")]

\* pflag's FlagSet.Set: the value of a string flag is replaced, a value of a
\* slice flag is appended, and the flag counts as Changed.
SetFlag(o, f, v) ==
    LET c == [o EXCEPT !.Changed = @ \cup {f}]
    IN  IF f = "type" THEN [c EXCEPT !.Type = v] ELSE [c EXCEPT !.Labels = Append(@, v)]

\* Variant of EnvVarApplies that does not look at the allowed list.
EnvVarIsSet(o, f) == f \notin o.Changed /\ o.Environ[FlagToEnvVar(f)] # ""

\* workload.go 693-697: the variable of flag f is bound because it is in the
\* allowed list, the flag is not Changed and the variable is set.
EnvVarApplies(o, f) ==
    /\ FlagToEnvVar(f) \in EnvVarAllowedList
    /\ f \notin o.Changed
    /\ o.Environ[FlagToEnvVar(f)] # ""

\* WorkloadOptions.DefineEnvVars: VisitAll over the flags fs.
RECURSIVE DefineEnvVarsOf(_, _)
DefineEnvVarsOf(o, fs) ==
    IF fs = {} THEN o
    ELSE LET f == CHOOSE x \in fs : TRUE
             next == IF EnvVarApplies(o, f) THEN SetFlag(o, f, o.Environ[FlagToEnvVar(f)])
                     ELSE o
         IN  DefineEnvVarsOf(next, fs \ {f})
DefineEnvVars(o) == DefineEnvVarsOf(o, FlagNames)

\* cobra's parse of the command line: each flag of args is Set, in order.
RECURSIVE ParseFlags(_, _)
ParseFlags(o, args) ==
    IF args = <<>> THEN o
    ELSE ParseFlags(SetFlag(o, Head(args).flag, Head(args).value), Tail(args))

\* workload_create.go 205-208 and the run of the command: the flags are defined,
\* then set from the environment, then from the command line.
NewWorkloadCreateCommand(o) == ParseFlags(DefineEnvVars(o), o.Args)

\* Variant of SubPathGiven that takes an empty value for no flag.
SubPathNonEmpty(o) == o.SubPath # ""

\* workload.go 305: --sub-path was passed, with whatever value.
SubPathGiven(o) == o.SubPathChanged

\* Variant of ServiceAccountGiven that takes an empty value for no flag.
ServiceAccountNonEmpty(o) == o.ServiceAccountName # ""

\* workload.go 385: --service-account was passed, with whatever value.
ServiceAccountGiven(o) == o.SAChanged

\* workload.go 268-311 and 385-387: each of these flags is merged when it is set.
ApplyApp(o, wl) == IF o.App # "" THEN MergeAppLabel(wl, o.App) ELSE wl
ApplyType(o, wl) == IF o.Type # "" THEN MergeTypeLabel(wl, o.Type) ELSE wl
ApplyGit(o, wl) ==
    IF o.GitRepo # "" \/ o.GitTag # "" THEN MergeGit(wl, o.GitRepo, o.GitTag) ELSE wl
ApplySourceImage(o, wl) ==
    IF o.SourceImage # "" THEN MergeSourceImage(wl, o.SourceImage) ELSE wl
ApplySubPath(o, wl) == IF SubPathGiven(o) THEN MergeSubPath(wl, o.SubPath) ELSE wl
ApplyImage(o, wl) == IF o.Image # "" THEN MergeImage(wl, o.Image) ELSE wl
ApplyServiceAccountName(o, wl) ==
    IF ServiceAccountGiven(o) THEN MergeServiceAccountName(wl, o.ServiceAccountName)
    ELSE wl

\* WorkloadOptions.ApplyOptionsToWorkload, in the order of the source.
ApplyOptionsToWorkload(o, wl) ==
    LET l == ApplyLabels(wl, o.Labels)
        n == ApplyAnnotations(l, o.Annotations)
        p == ApplyParams(n, o.Params)
        m == ApplyMavenFlags(o, p)
        y == ApplyParamsYaml(o, m, o.ParamsYaml)
        a == ApplyApp(o, y)
        b == ApplyType(o, a)
        c == ApplyGit(o, b)
        d == ApplySourceImage(o, c)
        e == ApplySubPath(o, d)
        f == ApplyImage(o, e)
        g == ApplyBuildEnv(ApplyEnv(f, o.Env), o.BuildEnv)
    IN  ApplyServiceAccountName(o, g)

\* Workload.Validate: the name is required, a git source needs its url and a
\* ref, and a sub-path needs a source.
ValidateWorkload(wl) ==
    /\ wl.name # ""
    /\ (wl.gitURL # "" <=> wl.gitTag # "")
    /\ (wl.subPath # "" => (wl.gitURL # "" \/ wl.srcImage # ""))

\* Variant of MissingSourceImage that asks for no source image.
NoSourceImageNeeded(o, wl) == FALSE

\* workload_create.go 97-102: local path requires a source image.
MissingSourceImage(o, wl) == o.LocalPath # "" /\ wl.srcImage = ""

\* Variant of ValidationErrors that finds no error.
NoValidationErrors(o, wl) == ""

\* workload_create.go 96-103: the errors of Workload.Validate, and with them the
\* missing field --source-image; "" when there is none.
ValidationErrors(o, wl) ==
    IF MissingSourceImage(o, wl)
    THEN IF ValidateWorkload(wl) THEN "missing --source-image"
         ELSE "validation, missing --source-image"
    ELSE IF ValidateWorkload(wl) THEN "" ELSE "validation"

---------------------------------------------------------------------------
(* The cluster client *)

\* c.Get of a Workload: NotFound when the key is not on the cluster; getFails is
\* any other failure of the read.
ClientGet(wls, key, getFails) ==
    IF getFails THEN [err |-> "get failed", obj |-> EmptyWorkload]
    ELSE IF key \in DOMAIN wls THEN [err |-> "nil", obj |-> wls[key]]
    ELSE [err |-> "NotFound", obj |-> EmptyWorkload]

\* c.Create of a Workload: the API server refuses a key that exists and a
\* namespace that does not; createFails is any other failure of the write.
ClientCreate(wls, nss, wl, createFails) ==
    IF createFails \/ Key(wl) \in DOMAIN wls \/ wl.namespace \notin nss
    THEN [err |-> "create failed", wls |-> wls]
    ELSE [err |-> "nil", wls |-> (Key(wl) :> wl) @@ wls]

---------------------------------------------------------------------------
(* Exec, first part: workload_create.go 56-112 *)

\* Variant of IsDryRun in which --yes overrides --dry-run.
IsDryRunUnlessYes(o) == o.DryRun /\ ~o.Yes

\* WorkloadCreateOptions.IsDryRun
IsDryRun(o) == o.DryRun

\* Variant of AlreadyExists that recognises workloads of the default namespace only.
AlreadyExistsInDefault(existing, wl) ==
    existing.name = wl.name /\ existing.namespace = DefaultNamespace

\* workload_create.go 86-91: the looked-up workload is the one to create.
AlreadyExists(existing, wl) ==
    existing.name = wl.name /\ existing.namespace = wl.namespace

\* The result of a part of Exec: where Exec goes on, its locals and what it did.
Step(next, wl, r, o, c, usage) ==
    [pc |-> next, workload |-> wl, ret |-> r, out |-> o, calls |-> c,
     silenceUsage |-> usage]

\* env: [loadFails, getFails, nsGet]
Lookup(o, wls, nss, env) ==
    LET loaded == IF o.FilePath # "" THEN LoadInputWorkload(o, env.loadFails)
                  ELSE [err |-> "nil", wl |-> EmptyWorkload]
        wl == ResolveNamespace(o, ResolveName(o, loaded.wl))
        got == ClientGet(wls, Key(wl), env.getFails)
        getCall == <<Call("GetWorkload", wl.namespace, wl.name)>>
        nsName == NamespaceToValidate(o, wl)
        nsRes == validateNamespace(nss, env.nsGet, nsName)
        nsCall == <<[Call("GetNamespace", nsName, "") EXCEPT
                        !.res = NamespaceGet(nss, env.nsGet, nsName)]>>
        merged == ApplyOptionsToWorkload(o, wl)
    IN  IF loaded.err # "nil"
        THEN Step("done", EmptyWorkload, Err(loaded.err), <<>>, <<>>, TRUE)
        ELSE IF got.err \notin {"nil", "NotFound"}
        THEN Step("done", wl, Err(got.err), <<>>, getCall, TRUE)
        ELSE IF got.err = "NotFound" /\ nsRes.err # Nil
        THEN \* line 80 returns the lookup's error, not validateNamespace's
             Step("done", wl, Err(got.err), nsRes.out, getCall \o nsCall, TRUE)
        ELSE LET c == IF got.err = "NotFound" THEN getCall \o nsCall ELSE getCall
             IN  IF AlreadyExists(got.obj, wl)
                 THEN Step("done", wl, SilenceError(""),
                           <<Msg("already exists", wl.namespace, wl.name)>>, c, TRUE)
                 ELSE IF ValidationErrors(o, merged) # ""
                 THEN Step("done", merged, Err(ValidationErrors(o, merged)), <<>>, c, FALSE)
                 ELSE IF IsDryRun(o)
                 THEN Step("done", merged, Nil,
                           <<Msg("dry run resource", merged.namespace, merged.name)>>,
                           c, TRUE)
                 ELSE Step("publish", merged, NoRet, <<>>, c, TRUE)

---------------------------------------------------------------------------
(* Publishing local source: workload.go 392-463, workload_create.go 114-119 *)

PromptAnswers == {"yes", "no", "error"}
PathKinds == {"dir", "zip", "badzip", "other"}

\* strings.Split(image, "@sha")[0] and the digested image ImgpkgPush returns.
Tagged(img) == IF img = "img@sha" THEN "img" ELSE img
Digested(img) == "img@sha"

\* Variant of checkToPublishLocalSource that asks and goes on whatever the answer.
checkToPublishWhateverAnswer(o, wl, answer) ==
    [ok |-> TRUE, out |-> <<>>,
     calls |-> IF ~o.Yes THEN <<Prompt("publish", answer)>> ELSE <<>>]

\* checkToPublishLocalSource: [ok, out, calls]
checkToPublishLocalSource(o, wl, answer) ==
    IF ~o.Yes
    THEN IF answer # "yes"
         THEN [ok |-> FALSE, out |-> <<Msg("Skipping workload", "", wl.name)>>,
               calls |-> <<Prompt("publish", answer)>>]
         ELSE [ok |-> TRUE, out |-> <<>>, calls |-> <<Prompt("publish", answer)>>]
    ELSE [ok |-> TRUE, out |-> <<>>, calls |-> <<>>]

\* PublishLocalSource with currentWorkload = nil, as Exec calls it.
\* env: [answer, pathKind, pushFails]; result [ok, err, wl, out, calls, registry]
PublishLocalSource(o, wl, reg, env) ==
    LET taggedImage == Tagged(wl.srcImage)
        chk == checkToPublishLocalSource(o, wl, env.answer)
        R(okv, e, w, oo, cc, rr) ==
            [ok |-> okv, err |-> e, wl |-> w, out |-> oo, calls |-> cc, registry |-> rr]
    IN  IF o.LocalPath = "" THEN R(TRUE, Nil, wl, <<>>, <<>>, reg)
        ELSE IF ~chk.ok THEN R(FALSE, Nil, wl, chk.out, chk.calls, reg)
        ELSE IF env.pathKind = "badzip"
        THEN R(FALSE, Err("extract failed"), wl,
               chk.out \o <<Msg("Failed to extract", "", "")>>, chk.calls, reg)
        ELSE IF env.pathKind = "other"
        THEN R(FALSE, Err("unsupported file format"), wl, chk.out, chk.calls, reg)
        ELSE LET pub == chk.out \o <<Msg("Publishing source", "", taggedImage)>>
                 push == chk.calls \o <<Call("Push", "", taggedImage)>>
             IN  IF env.pushFails
                 THEN R(TRUE, Err("push failed"), wl, pub, push, reg)
                 ELSE R(TRUE, Nil, [wl EXCEPT !.srcImage = Digested(taggedImage)],
                        pub \o <<Msg("Published source", "", "")>>, push,
                        reg \cup {taggedImage})

---------------------------------------------------------------------------
(* Create and Update: workload.go 515-619 *)

\* Variant of Confirmed in which input from stdin counts as confirmed.
ConfirmedOrStdin(o) == o.Yes \/ o.FilePath = "-"

\* workload.go 595 / 542: the write needs no prompt.
Confirmed(o) == o.Yes

\* workload.go 596 / 543: input from stdin cannot be confirmed at a prompt.
FromStdin(o) == o.FilePath = "-"

\* env: [diffFails, answer, writeFails]; result [ok, err, out, calls, wls]
Create(o, wl, wls, nss, env) ==
    LET R(okv, e, oo, cc, ww) ==
            [ok |-> okv, err |-> e, out |-> oo, calls |-> cc, wls |-> ww]
        head == <<Msg("Create workload", wl.namespace, wl.name)>> \o GetNotices(o)
        prompt == <<Prompt("create", env.answer)>>
        asked == ~Confirmed(o) /\ ~FromStdin(o)
        pre == IF asked THEN prompt ELSE <<>>
        res == ClientCreate(wls, nss, wl, env.writeFails)
        req == pre \o <<Call("Create", wl.namespace, wl.name)>>
    IN  IF env.diffFails THEN R(FALSE, Err("diff failed"), <<>>, <<>>, wls)
        ELSE IF ~Confirmed(o) /\ FromStdin(o)
        THEN R(FALSE, Nil, head \o <<Msg("Skipping workload", "", "")>>, <<>>, wls)
        ELSE IF asked /\ env.answer # "yes"
        THEN R(FALSE, Nil, head \o <<Msg("Skipping workload", "", wl.name)>>, prompt, wls)
        ELSE IF res.err # "nil"
        THEN R(TRUE, Err(res.err), head, req, wls)
        ELSE R(TRUE, Nil, head \o <<Msg("Created workload", "", wl.name)>>, req, res.wls)

\* c.Update of a Workload: the outcomes of the write.
UpdateOutcomes == {"ok", "conflict", "error"}
ClientUpdate(wls, wl, outcome) ==
    IF outcome = "conflict" THEN [err |-> "Conflict", wls |-> wls]
    ELSE IF outcome = "error" \/ Key(wl) \notin DOMAIN wls
    THEN [err |-> "update failed", wls |-> wls]
    ELSE [err |-> "nil", wls |-> [wls EXCEPT ![Key(wl)] = wl]]

\* printer.ResourceDiff's noChange: the two workloads do not differ.
NoChange(currentWorkload, wl) == currentWorkload = wl

\* Variant of SkipUpdate that skips an unchanged workload only without --yes.
SkipUpdateUnlessYes(o, currentWorkload, wl) == ~o.Yes /\ NoChange(currentWorkload, wl)

\* workload.go 524-532: the diff reports no change, whatever the options.
SkipUpdate(o, currentWorkload, wl) == NoChange(currentWorkload, wl)

\* Variant of IsConflict that takes every error of the write for a conflict.
IsError(e) == e # "nil"

\* workload.go 562: apierrs.IsConflict
IsConflict(e) == e = "Conflict"

\* env: [diffFails, answer, write]; result [ok, err, out, calls, wls]
Update(o, currentWorkload, wl, wls, env) ==
    LET R(okv, e, oo, cc, ww) ==
            [ok |-> okv, err |-> e, out |-> oo, calls |-> cc, wls |-> ww]
        head == <<Msg("Update workload", wl.namespace, wl.name)>> \o GetNotices(o)
        prompt == <<Prompt("update", env.answer)>>
        asked == ~Confirmed(o) /\ ~FromStdin(o)
        pre == IF asked THEN prompt ELSE <<>>
        res == ClientUpdate(wls, wl, env.write)
        req == pre \o <<[Call("Update", wl.namespace, wl.name) EXCEPT !.res = res.err]>>
    IN  IF env.diffFails THEN R(FALSE, Err("diff failed"), <<>>, <<>>, wls)
        ELSE IF SkipUpdate(o, currentWorkload, wl)
        THEN R(FALSE, Nil, <<Msg("Workload is unchanged", "", "")>>, <<>>, wls)
        ELSE IF ~Confirmed(o) /\ FromStdin(o)
        THEN R(FALSE, Nil, head \o <<Msg("Skipping workload", "", "")>>, <<>>, wls)
        ELSE IF asked /\ env.answer # "yes"
        THEN R(FALSE, Nil, head \o <<Msg("Skipping workload", "", wl.name)>>, prompt, wls)
        ELSE IF IsConflict(res.err)
        THEN R(FALSE, SilenceError(res.err),
               head \o <<Msg("conflict updating workload", "", "")>>, req, wls)
        ELSE IF res.err # "nil"
        THEN R(FALSE, Err(res.err), head, req, wls)
        ELSE R(TRUE, Nil, head \o <<Msg("Updated workload", "", wl.name)>>, req, res.wls)

---------------------------------------------------------------------------
(* Exec, last part: workload_create.go 121-169, and the wait phase *)

\* Variant of AnyTail that forgets --tail-timestamp.
TailOnly(o) == o.Tail

\* workload_create.go 132
AnyTail(o) == o.Tail \/ o.TailTimestamps

\* Variant of ShouldWait that looks at the flags alone.
WaitRequested(o, okToCreate) == o.Wait \/ AnyTail(o)

\* workload_create.go 133: the wait phase is entered.
ShouldWait(o, okToCreate) == okToCreate /\ (o.Wait \/ AnyTail(o))

\* workload_create.go 136-155: the workers handed to wait.Race.
Workers(o) == <<"watcher">> \o (IF AnyTail(o) THEN <<"tailer">> ELSE <<>>)

\* workload_create.go 134, 159, 166: the name the wait messages print.
WaitMessageName(o, wl) == o.Name

\* workload_create.go 142: the object the readiness watcher waits for.
WatchTarget(o, wl) == Call("Watch", wl.namespace, wl.name)

\* workload_create.go 148-153: the call of logs.Tail (selector on the workload's
\* name, namespace, timestamps).
TailCall(o, wl) == [op |-> "Tail", ns |-> o.Namespace, name |-> wl.name,
                    ts |-> o.TailTimestamps, res |-> ""]

\* DisplayCommandNextSteps (workload.go 188-196)
DisplayCommandNextSteps(wl) == <<Msg("next steps", wl.namespace, wl.name)>>

\* The request each worker makes when wait.Race starts it: the watch of the
\* readiness watcher, the log tail of the tailer.
WorkerCalls(o, wl) ==
    <<WatchTarget(o, wl)>> \o (IF AnyTail(o) THEN <<TailCall(o, wl)>> ELSE <<>>)

\* workload_create.go 121-157: what Exec does with Create's result r.
\* [pc, ret, out, workers, calls]
AfterCreate(o, wl, r) ==
    LET steps == IF r.ok THEN DisplayCommandNextSteps(wl) ELSE <<>>
    IN  IF r.err # Nil
        THEN [pc |-> "done", ret |-> r.err, out |-> r.out, workers |-> <<>>,
              calls |-> <<>>]
        ELSE IF ShouldWait(o, r.ok)
        THEN [pc |-> "race", ret |-> NoRet,
              out |-> r.out \o steps
                      \o <<Msg("Waiting for workload", "", WaitMessageName(o, wl))>>,
              workers |-> Workers(o), calls |-> WorkerCalls(o, wl)]
        ELSE [pc |-> "done", ret |-> Nil, out |-> r.out \o steps, workers |-> <<>>,
              calls |-> <<>>]

\* What the update command's Exec does with Update's result r: as Exec of create
\* does with Create's.
AfterUpdate(o, wl, r) == AfterCreate(o, wl, r)

\* cartov1alpha1.WorkloadReadyConditionFunc inside wait.UntilCondition: the error the
\* watcher returns for the status it observed ("watch failed" when it observed none:
\* the watch cannot be started, or breaks).
ReadyStatuses == {"True", "False"}
WatcherResult(status) ==
    CASE status = "True" -> "nil"
      [] status = "False" -> "Failed to become ready"
      [] OTHER -> "watch failed"

TailerResults == {"nil", "tail failed"}

\* workload_create.go 157-168: what Exec does with the error e of wait.Race.
\* [ret, out]
AfterRace(o, wl, e) ==
    IF e = "DeadlineExceeded"
    THEN [ret |-> SilenceError(e),
          out |-> <<Msg("timeout", "", WaitMessageName(o, wl))>>]
    ELSE IF e # "nil"
    THEN [ret |-> SilenceError(e), out |-> <<Msg("Error", "", e)>>]
    ELSE [ret |-> Nil, out |-> <<Msg("is ready", "", WaitMessageName(o, wl))>>]

\* wait.Race's select: the results that are ready to be taken.
RaceReady == (IF errs # <<>> THEN {Head(errs)} ELSE {})
             \cup (IF ctxDone THEN {"DeadlineExceeded"} ELSE {})

---------------------------------------------------------------------------
(* Inputs of an invocation *)

\* The workloads a --file (or stdin) holds.
FileWorkloads ==
    {[EmptyWorkload EXCEPT !.name = n, !.namespace = ns] :
        n \in {"", "w2"}, ns \in {"", OtherNamespace}}

\* --file: none, stdin, a file that exists, a file that does not.
FileInputs ==
    {[FilePath |-> "", FileExists |-> FALSE, File |-> EmptyWorkload, Stdin |-> EmptyWorkload],
     [FilePath |-> "missing.yaml", FileExists |-> FALSE, File |-> EmptyWorkload,
      Stdin |-> EmptyWorkload]}
    \cup {[FilePath |-> "-", FileExists |-> FALSE, File |-> EmptyWorkload, Stdin |-> w] :
            w \in FileWorkloads}
    \cup {[FilePath |-> "wl.yaml", FileExists |-> TRUE, File |-> w, Stdin |-> EmptyWorkload] :
            w \in FileWorkloads}

\* --namespace: not passed (the default namespace), or passed.
NsInputs ==
    {[Namespace |-> DefaultNamespace, NsChanged |-> FALSE]}
    \cup {[Namespace |-> ns, NsChanged |-> TRUE] : ns \in Namespaces}

\* WorkloadOptions.Validate (workload.go 140-186): without --file the name
\* argument is required.
ValidOptions(o) == o.FilePath = "" => o.Name # ""

\* The flags that steer Exec, set on top of the options o.
WithFlags(o, y, d, w, t, ts) ==
    [o EXCEPT !.Yes = y, !.DryRun = d, !.Wait = w, !.Tail = t, !.TailTimestamps = ts]

\* Name argument, --namespace and --file in every combination.
Targets ==
    {o \in {[DefaultOpts EXCEPT !.Name = n, !.Namespace = ns.Namespace,
                                !.NsChanged = ns.NsChanged, !.FilePath = f.FilePath,
                                !.FileExists = f.FileExists, !.File = f.File,
                                !.Stdin = f.Stdin] :
                n \in {"", "w1"}, ns \in NsInputs, f \in FileInputs} : ValidOptions(o)}

\* Every target, with --yes, --dry-run and --wait in every combination.
InputsResolve ==
    {WithFlags(o, y, d, w, FALSE, FALSE) :
        o \in Targets, y \in BOOLEAN, d \in BOOLEAN, w \in BOOLEAN}

\* The targets of the wait phase: a name argument alone, and a workload from
\* stdin or from a file that names itself and its namespace.
WaitTargets ==
    {o \in Targets :
        /\ ~o.NsChanged
        /\ \/ o.FilePath = "" 
           \/ o.Name = "" /\ o.FilePath = "-" /\ o.Stdin.name # "" /\ o.Stdin.namespace # ""
           \/ o.Name = "" /\ o.FilePath = "wl.yaml" /\ o.File.name # "" /\ o.File.namespace = ""}

\* The wait targets with every combination of the five flags.
InputsWait ==
    {WithFlags(o, y, d, w, t, ts) :
        o \in WaitTargets, y \in BOOLEAN, d \in BOOLEAN, w \in BOOLEAN, t \in BOOLEAN,
        ts \in BOOLEAN}

\* --local-path with and without --source-image.
InputsLocal ==
    {WithFlags([DefaultOpts EXCEPT !.Name = "w1", !.LocalPath = "dir", !.SourceImage = img],
               y, d, w, t, FALSE) :
        img \in {"", "img"}, y \in BOOLEAN, d \in BOOLEAN, w \in BOOLEAN, t \in BOOLEAN}

Inputs == InputsResolve \cup InputsWait \cup InputsLocal

\* Inputs of Create and Update called on their own: --yes and where the input
\* comes from (flags, stdin, a file), and the workload handed to them.
WriteOptions ==
    {[DefaultOpts EXCEPT !.Yes = y, !.FilePath = f, !.FileExists = (f = "wl.yaml")] :
        y \in BOOLEAN, f \in {"", "-", "wl.yaml"}}

WriteWorkloads ==
    {[EmptyWorkload EXCEPT !.name = "w1", !.namespace = ns, !.sa = sa] :
        ns \in Namespaces, sa \in {"", "sa1"}}

\* Inputs of the load of --file: the path "-" or the path of a file, a file of
\* that name that can be opened or none, standard input, a name argument or none,
\* --yes or not. The file and standard input hold different workloads.
OnDisk == [EmptyWorkload EXCEPT !.name = "w2", !.image = "img-file"]
OnStdin == [EmptyWorkload EXCEPT !.name = "w2", !.image = "img-stdin"]

InputsFile ==
    {[DefaultOpts EXCEPT !.Name = n, !.Yes = y, !.FilePath = f, !.FileExists = x,
                         !.File = (IF x THEN OnDisk ELSE EmptyWorkload),
                         !.Stdin = OnStdin] :
        n \in {"", "w1"}, y \in BOOLEAN, f \in {"-", "wl.yaml"}, x \in BOOLEAN}

\* Inputs of the key/value flags: one of --label, --annotation, --param, --env,
\* --build-env with up to MaxEntries values that set k1 or k2 or remove k1, over a
\* file whose maps are empty or hold both keys, with --yes.
MaxEntries == 2
Entries == {"k1=a", "k1=b", "k1-", "k2=c"}
EntryLists == UNION {[1..n -> Entries] : n \in 0..MaxEntries}
KeyValueFlags == {"Labels", "Annotations", "Params", "Env", "BuildEnv"}

FileEntries == [NoEntries EXCEPT !["k1"] = "z", !["k2"] = "y"]
EntryFiles ==
    {[EmptyWorkload EXCEPT !.name = "w2", !.image = "img1"],
     [EmptyWorkload EXCEPT !.name = "w2", !.image = "img1",
                           !.labels = FileEntries, !.annotations = FileEntries,
                           !.env = FileEntries, !.buildEnv = FileEntries,
                           !.params["k1"] = Scalar("z"), !.params["k2"] = Scalar("y")]}

InputsEntries ==
    {[DefaultOpts EXCEPT !.FilePath = "wl.yaml", !.FileExists = TRUE, !.File = f,
                         !.Yes = TRUE, ![flag] = es] :
        f \in EntryFiles, flag \in KeyValueFlags, es \in EntryLists}

\* Inputs of the update command: --yes, --wait, --tail, and input from flags or
\* from stdin.
UpdateOptions ==
    {[DefaultOpts EXCEPT !.Name = "w1", !.Yes = y, !.FilePath = f, !.Wait = w, !.Tail = t] :
        y \in BOOLEAN, f \in {"", "-"}, w \in BOOLEAN, t \in BOOLEAN}

\* Inputs of the merge of flags over a file: a file with a git source or with an
\* image, and the flags --type, --sub-path and --service-account (both also with
\* the empty value) and one source at most (--git-tag, --git-repo with --git-tag, or
\* --image), with --yes.
MergeFiles ==
    {[EmptyWorkload EXCEPT !.name = "w2", !.type = "web", !.app = "app1",
                           !.gitURL = "repo1", !.gitTag = "v1", !.subPath = "a",
                           !.sa = "sa1"],
     [EmptyWorkload EXCEPT !.name = "w2", !.type = "web", !.app = "app1",
                           !.image = "img1", !.sa = "sa1"]}

SourceFlags ==
    {[GitRepo |-> "", GitTag |-> "", Image |-> ""],
     [GitRepo |-> "", GitTag |-> "v2", Image |-> ""],
     [GitRepo |-> "repo2", GitTag |-> "v2", Image |-> ""],
     [GitRepo |-> "", GitTag |-> "", Image |-> "img2"]}

SubPathFlags ==
    {[SubPath |-> "", SubPathChanged |-> FALSE], [SubPath |-> "b", SubPathChanged |-> TRUE],
     [SubPath |-> "", SubPathChanged |-> TRUE]}

ServiceAccountFlags ==
    {[ServiceAccountName |-> "", SAChanged |-> FALSE],
     [ServiceAccountName |-> "sa2", SAChanged |-> TRUE],
     [ServiceAccountName |-> "", SAChanged |-> TRUE]}

InputsMerge ==
    {[DefaultOpts EXCEPT !.FilePath = "wl.yaml", !.FileExists = TRUE, !.File = f,
                         !.Yes = TRUE, !.Type = t, !.GitRepo = g.GitRepo,
                         !.GitTag = g.GitTag, !.SubPath = sp.SubPath,
                         !.SubPathChanged = sp.SubPathChanged,
                         !.ServiceAccountName = sa.ServiceAccountName,
                         !.SAChanged = sa.SAChanged, !.Image = g.Image] :
        f \in MergeFiles, t \in {"", "t2"}, g \in SourceFlags, sp \in SubPathFlags,
        sa \in ServiceAccountFlags}

\* Inputs of the maven flags and --param-yaml: a file with or without a maven
\* param, --maven-artifact and --maven-version, and --param-yaml entries that set
\* or remove the maven param, with --yes.
MavenFiles ==
    {[EmptyWorkload EXCEPT !.name = "w2", !.image = "img1"],
     [EmptyWorkload EXCEPT !.name = "w2", !.image = "img1",
                           !.params[WorkloadMavenParam] = MavenSource("a1", "g1", "1", "")]}

MavenFlags ==
    {[MavenArtifact |-> a, MavenVersion |-> v,
      Changed |-> (IF a # "" THEN {"maven-artifact"} ELSE {})
                    \cup (IF v # "" THEN {"maven-version"} ELSE {})] :
        a \in {"", "a2"}, v \in {"", "2"}}

ParamYamlSet == [key |-> WorkloadMavenParam, remove |-> FALSE,
                 value |-> MavenSource("ay", "gy", "9", "war")]
ParamYamlRemove == [key |-> WorkloadMavenParam, remove |-> TRUE, value |-> NoParam]
ParamYamlOther == [key |-> "p1", remove |-> FALSE, value |-> Scalar("x")]

ParamsYamlInputs ==
    {<<>>, <<ParamYamlSet>>, <<ParamYamlRemove>>, <<ParamYamlOther, ParamYamlSet>>,
     <<ParamYamlSet, ParamYamlRemove>>, <<ParamYamlRemove, ParamYamlSet>>}

InputsMaven ==
    {[DefaultOpts EXCEPT !.FilePath = "wl.yaml", !.FileExists = TRUE, !.File = f,
                         !.Yes = TRUE, !.MavenArtifact = m.MavenArtifact,
                         !.MavenVersion = m.MavenVersion, !.Changed = m.Changed,
                         !.ParamsYaml = py] :
        f \in MavenFiles, m \in MavenFlags, py \in ParamsYamlInputs}

\* Inputs of the environment defaults: TANZU_APPS_TYPE and TANZU_APPS_LABEL set
\* or not, --type (also with the empty value) and --label on the command line or
\* not, a name argument and --yes.
Environs ==
    {[v \in EnvVars |-> IF v = "TANZU_APPS_TYPE" THEN t ELSE l] :
        t \in {"", "jar"}, l \in {"", "foo=var"}}

ArgLists ==
    {ts \o ls : ts \in {<<>>, <<[flag |-> "type", value |-> "web"]>>,
                          <<[flag |-> "type", value |-> ""]>>},
                 ls \in {<<>>, <<[flag |-> "label", value |-> "k1=a"]>>}}

InputsEnv ==
    {NewWorkloadCreateCommand([DefaultOpts EXCEPT !.Name = n, !.Yes = TRUE,
                                                  !.Environ = e, !.Args = a]) :
        n \in {"w1", "w2"}, e \in Environs, a \in ArgLists}

---------------------------------------------------------------------------
(* The state machine *)

NoWorkloads == [k \in {} |-> EmptyWorkload]

Init ==
    /\ nsExists \in {{DefaultNamespace}, Namespaces}
    /\ workloads = NoWorkloads
    /\ registry = {}
    /\ opts = DefaultOpts
    /\ pc = "idle"
    /\ workload = EmptyWorkload
    /\ ok = FALSE
    /\ out = <<>>
    /\ calls = <<>>
    /\ ret = NoRet
    /\ silenceUsage = TRUE
    /\ workers = <<>>
    /\ running = {}
    /\ errs = <<>>
    /\ ctxDone = FALSE
    /\ resultsAtExpiry = 0
    /\ observed = ""
    /\ cluster0 = NoWorkloads
    /\ invocations = 0

\* The command is run with options o: cli.ExecE calls Exec with SilenceUsage set.
Invoke(o) ==
    /\ pc = "idle"
    /\ invocations < MaxInvocations
    /\ invocations' = invocations + 1
    /\ opts' = o
    /\ pc' = "exec"
    /\ cluster0' = workloads
    /\ UNCHANGED <<nsExists, workloads, registry, workload, ok, out, calls, ret,
                   silenceUsage, workers, running, errs, ctxDone, resultsAtExpiry,
                   observed>>

InvokeCreate == \E o \in Inputs : Invoke(o)

\* workload_create.go 56-112
ExecLookup ==
    /\ pc = "exec"
    /\ \E lf \in BOOLEAN, gf \in BOOLEAN, ng \in NsGetOutcomes :
         LET r == Lookup(opts, workloads, nsExists,
                         [loadFails |-> lf, getFails |-> gf, nsGet |-> ng])
         IN  /\ pc' = r.pc
             /\ workload' = r.workload
             /\ ret' = r.ret
             /\ out' = out \o r.out
             /\ calls' = calls \o r.calls
             /\ silenceUsage' = r.silenceUsage
    /\ UNCHANGED <<nsExists, workloads, registry, opts, ok, workers, running, errs,
                   ctxDone, resultsAtExpiry, observed, cluster0, invocations>>

\* workload_create.go 114-119
ExecPublish ==
    /\ pc = "publish"
    /\ \E a \in PromptAnswers, k \in PathKinds, pf \in BOOLEAN :
         LET r == PublishLocalSource(opts, workload, registry,
                                     [answer |-> a, pathKind |-> k, pushFails |-> pf])
         IN  /\ pc' = IF r.err = Nil /\ r.ok THEN "create" ELSE "done"
             /\ ret' = IF r.err # Nil THEN r.err ELSE IF ~r.ok THEN Nil ELSE NoRet
             /\ workload' = r.wl
             /\ out' = out \o r.out
             /\ calls' = calls \o r.calls
             /\ registry' = r.registry
    /\ UNCHANGED <<nsExists, workloads, opts, ok, silenceUsage, workers, running, errs,
                   ctxDone, resultsAtExpiry, observed, cluster0, invocations>>

\* workload_create.go 121-157: Create, the next steps, and the start of wait.Race,
\* which starts one goroutine per worker.
ExecCreate ==
    /\ pc = "create"
    /\ \E df \in BOOLEAN, a \in PromptAnswers, wf \in BOOLEAN :
         LET r == Create(opts, workload, workloads, nsExists,
                         [diffFails |-> df, answer |-> a, writeFails |-> wf])
             x == AfterCreate(opts, workload, r)
         IN  /\ ok' = r.ok
             /\ workloads' = r.wls
             /\ calls' = calls \o r.calls \o x.calls
             /\ out' = out \o x.out
             /\ pc' = x.pc
             /\ ret' = x.ret
             /\ workers' = x.workers
             /\ running' = {x.workers[i] : i \in 1..Len(x.workers)}
    /\ UNCHANGED <<nsExists, registry, opts, workload, silenceUsage, errs, ctxDone,
                   resultsAtExpiry, observed, cluster0, invocations>>

\* wait.Race ends with the error e: it cancels its context, which ends the
\* workers, and Exec handles e (workload_create.go 157-168).
RaceEnds(e) ==
    LET x == AfterRace(opts, workload, e)
    IN  /\ pc' = "done"
        /\ ret' = x.ret
        /\ out' = out \o x.out
        /\ running' = {}
        /\ errs' = <<>>
        /\ ctxDone' = TRUE
        /\ resultsAtExpiry' = 0

\* Worker w returns e. While Race is blocked in its select (pc = "select") the
\* result ends the race at once; before Race has reached the select (pc = "race")
\* the result waits in the buffered channel.
WorkerReturns(w, e) ==
    IF pc = "select"
    THEN RaceEnds(e)
    ELSE /\ errs' = Append(errs, e)
         /\ running' = running \ {w}
         /\ UNCHANGED <<pc, ret, out, ctxDone, resultsAtExpiry>>

\* The readiness watcher (workload_create.go 137-143) receives an event of its
\* target and evaluates the Ready condition on it.
WatcherObserves ==
    /\ pc \in {"race", "select"}
    /\ "watcher" \in running
    /\ observed = ""
    /\ \E status \in ReadyStatuses : observed' = status
    /\ UNCHANGED <<nsExists, workloads, registry, opts, pc, workload, ok, out, calls, ret,
                   silenceUsage, workers, running, errs, ctxDone, resultsAtExpiry,
                   cluster0, invocations>>

\* The readiness watcher returns: with the verdict on the status it observed, or
\* with the error of a watch that could not be started or broke.
WatcherReturns ==
    /\ pc \in {"race", "select"}
    /\ "watcher" \in running
    /\ WorkerReturns("watcher", WatcherResult(observed))
    /\ UNCHANGED <<nsExists, workloads, registry, opts, workload, ok, calls, silenceUsage,
                   workers, observed, cluster0, invocations>>

\* The log tailer (workload_create.go 147-154) returns.
TailerReturns ==
    /\ pc \in {"race", "select"}
    /\ "tailer" \in running
    /\ \E e \in TailerResults : WorkerReturns("tailer", e)
    /\ UNCHANGED <<nsExists, workloads, registry, opts, workload, ok, calls, silenceUsage,
                   workers, observed, cluster0, invocations>>

\* The context of wait.Race reaches its deadline (--wait-timeout): at once for a
\* timeout that has passed when the context is made, later otherwise.
DeadlineExpires ==
    /\ pc \in {"race", "select"}
    /\ ~ctxDone
    /\ IF pc = "select"
       THEN RaceEnds("DeadlineExceeded")
       ELSE /\ ctxDone' = TRUE
            /\ resultsAtExpiry' = Len(errs)
            /\ UNCHANGED <<pc, ret, out, running, errs>>
    /\ UNCHANGED <<nsExists, workloads, registry, opts, workload, ok, calls, silenceUsage,
                   workers, observed, cluster0, invocations>>

\* wait.Race reaches its select: it takes one of the results that are ready, or
\* blocks until the first one arrives.
RaceSelect ==
    /\ pc = "race"
    /\ IF RaceReady = {}
       THEN /\ pc' = "select"
            /\ UNCHANGED <<ret, out, running, errs, ctxDone, resultsAtExpiry>>
       ELSE \E e \in RaceReady : RaceEnds(e)
    /\ UNCHANGED <<nsExists, workloads, registry, opts, workload, ok, calls, silenceUsage,
                   workers, observed, cluster0, invocations>>

\* The process exits; what is left of the invocation is the cluster and the registry.
Exit ==
    /\ pc = "done"
    /\ pc' = "idle"
    /\ opts' = DefaultOpts
    /\ workload' = EmptyWorkload
    /\ ok' = FALSE
    /\ out' = <<>>
    /\ calls' = <<>>
    /\ ret' = NoRet
    /\ silenceUsage' = TRUE
    /\ workers' = <<>>
    /\ running' = {}
    /\ errs' = <<>>
    /\ ctxDone' = FALSE
    /\ resultsAtExpiry' = 0
    /\ observed' = ""
    /\ cluster0' = workloads
    /\ UNCHANGED <<nsExists, workloads, registry, invocations>>

Next ==
    \/ InvokeCreate
    \/ ExecLookup
    \/ ExecPublish
    \/ ExecCreate
    \/ WatcherObserves
    \/ WatcherReturns
    \/ TailerReturns
    \/ DeadlineExpires
    \/ RaceSelect
    \/ Exit

Spec == Init /\ [][Next]_vars

---------------------------------------------------------------------------
(* Create and Update called on their own, as the commands call them *)

\* WorkloadOptions.Create is called with options o and the workload wl.
CallCreate ==
    /\ pc = "idle"
    /\ invocations < MaxInvocations
    /\ \E o \in WriteOptions, wl \in WriteWorkloads,
          df \in BOOLEAN, a \in PromptAnswers, wf \in BOOLEAN :
         LET r == Create(o, wl, workloads, nsExists,
                         [diffFails |-> df, answer |-> a, writeFails |-> wf])
         IN  /\ opts' = o
             /\ workload' = wl
             /\ ok' = r.ok
             /\ ret' = r.err
             /\ out' = r.out
             /\ calls' = r.calls
             /\ workloads' = r.wls
    /\ pc' = "done"
    /\ cluster0' = workloads
    /\ invocations' = invocations + 1
    /\ UNCHANGED <<nsExists, registry, silenceUsage, workers, running, errs, ctxDone,
                   resultsAtExpiry, observed>>

\* WorkloadOptions.Update is called with options o, a workload of the cluster as
\* currentWorkload and the workload wl that is to replace it.
CallUpdate ==
    /\ pc = "idle"
    /\ invocations < MaxInvocations
    /\ \E o \in WriteOptions, wl \in WriteWorkloads,
          df \in BOOLEAN, a \in PromptAnswers, w \in UpdateOutcomes :
         /\ Key(wl) \in DOMAIN workloads
         /\ LET r == Update(o, workloads[Key(wl)], wl, workloads,
                            [diffFails |-> df, answer |-> a, write |-> w])
            IN  /\ opts' = o
                /\ workload' = wl
                /\ ok' = r.ok
                /\ ret' = r.err
                /\ out' = r.out
                /\ calls' = r.calls
                /\ workloads' = r.wls
    /\ pc' = "done"
    /\ cluster0' = workloads
    /\ invocations' = invocations + 1
    /\ UNCHANGED <<nsExists, registry, silenceUsage, workers, running, errs, ctxDone,
                   resultsAtExpiry, observed>>

NextWrite ==
    \/ CallCreate
    \/ CallUpdate
    \/ Exit

SpecWrite == Init /\ [][NextWrite]_vars

---------------------------------------------------------------------------
(* `workload update` from the call of Update on *)

\* The update command is run with options o; it has read the workload of the
\* cluster and merged the options into wl, the workload it hands to Update.
InvokeUpdate ==
    /\ pc = "idle"
    /\ invocations < MaxInvocations
    /\ \E o \in UpdateOptions, wl \in WriteWorkloads :
         /\ Key(wl) \in DOMAIN workloads
         /\ opts' = o
         /\ workload' = wl
    /\ pc' = "update"
    /\ cluster0' = workloads
    /\ invocations' = invocations + 1
    /\ UNCHANGED <<nsExists, workloads, registry, ok, out, calls, ret, silenceUsage,
                   workers, running, errs, ctxDone, resultsAtExpiry, observed>>

\* Update, the next steps, and the start of wait.Race.
ExecUpdate ==
    /\ pc = "update"
    /\ \E df \in BOOLEAN, a \in PromptAnswers, w \in UpdateOutcomes :
         LET r == Update(opts, workloads[Key(workload)], workload, workloads,
                         [diffFails |-> df, answer |-> a, write |-> w])
             x == AfterUpdate(opts, workload, r)
         IN  /\ ok' = r.ok
             /\ workloads' = r.wls
             /\ calls' = calls \o r.calls \o x.calls
             /\ out' = out \o x.out
             /\ pc' = x.pc
             /\ ret' = x.ret
             /\ workers' = x.workers
             /\ running' = {x.workers[i] : i \in 1..Len(x.workers)}
    /\ UNCHANGED <<nsExists, registry, opts, workload, silenceUsage, errs, ctxDone,
                   resultsAtExpiry, observed, cluster0, invocations>>

NextUpdate ==
    \/ CallCreate
    \/ InvokeUpdate
    \/ ExecUpdate
    \/ WatcherObserves
    \/ WatcherReturns
    \/ TailerReturns
    \/ DeadlineExpires
    \/ RaceSelect
    \/ Exit

SpecUpdate == Init /\ [][NextUpdate]_vars

---------------------------------------------------------------------------
(* `workload create` with flags on top of a --file *)

InvokeMerge == \E o \in InputsMerge : Invoke(o)

NextMerge ==
    \/ InvokeMerge
    \/ ExecLookup
    \/ ExecPublish
    \/ ExecCreate
    \/ Exit

SpecMerge == Init /\ [][NextMerge]_vars

---------------------------------------------------------------------------
(* `workload create` with maven flags and --param-yaml on top of a --file *)

InvokeMaven == \E o \in InputsMaven : Invoke(o)

NextMaven ==
    \/ InvokeMaven
    \/ ExecLookup
    \/ ExecPublish
    \/ ExecCreate
    \/ Exit

SpecMaven == Init /\ [][NextMaven]_vars

---------------------------------------------------------------------------
(* `workload create` with flags from the environment and the command line *)

InvokeEnv == \E o \in InputsEnv : Invoke(o)

NextEnv ==
    \/ InvokeEnv
    \/ ExecLookup
    \/ ExecPublish
    \/ ExecCreate
    \/ Exit

SpecEnv == Init /\ [][NextEnv]_vars

---------------------------------------------------------------------------
(* `workload create` with --file *)

InvokeFile == \E o \in InputsFile : Invoke(o)

NextFile ==
    \/ InvokeFile
    \/ ExecLookup
    \/ ExecPublish
    \/ ExecCreate
    \/ Exit

SpecFile == Init /\ [][NextFile]_vars

---------------------------------------------------------------------------
(* `workload create` with key/value flags on top of a --file *)

InvokeEntries == \E o \in InputsEntries : Invoke(o)

NextEntries ==
    \/ InvokeEntries
    \/ ExecLookup
    \/ ExecPublish
    \/ ExecCreate
    \/ Exit

SpecEntries == Init /\ [][NextEntries]_vars

---------------------------------------------------------------------------
(* Properties *)

\* The invocation resolved to a workload that was on the cluster when it started.
TargetExisted == workload.name # "" /\ Key(workload) \in DOMAIN cluster0

\* The invocation started a worker or entered the wait phase.
Waited ==
    \/ workers # <<>>
    \/ Called("Watch")
    \/ Called("Tail")
    \/ Printed("Waiting for workload")

\* C1 (as amended): an invocation of `workload create` that resolves to a workload
\* N in namespace NS that is already on the cluster ends in Exec's first part with
\* an error, issues no create request, publishes no source, does not wait, and
\* leaves the cluster as it was; it prints `workload "NS/N" already exists` and
\* returns the silenced empty error whenever the read of the workload succeeds (a
\* failed read is returned as it is, without that message).
C1_ExistingWorkloadIsNotCreated ==
    TargetExisted =>
        /\ pc = "done"
        /\ ret.err \notin {"none", "nil"}
        /\ ~Called("Create")
        /\ ~Called("Push")
        /\ ~Waited
        /\ workloads = cluster0
        /\ ret.err # "get failed" =>
              /\ out = <<Msg("already exists", workload.namespace, workload.name)>>
              /\ ret = SilenceError("")

\* C1, witness: a second invocation with --yes and --wait resolves to a workload
\* an earlier one created, and reports it.
C1_Witness ==
    /\ TargetExisted
    /\ invocations = 2
    /\ opts.Yes
    /\ opts.Wait
    /\ Printed("already exists")

\* C1 as stated: every invocation that resolves to a workload already on the
\* cluster prints `already exists`.
C1_AlwaysPrintsAlreadyExists ==
    (TargetExisted /\ pc = "done") => Printed("already exists")

\* The errors with which Exec's lookup and validation steps end.
LookupErrors ==
    {"unable to open file", "unable to load file", "get failed", "NotFound", "",
     "validation", "missing --source-image", "validation, missing --source-image"}

\* C2: with --dry-run an invocation never leaves Exec's first part: it issues no
\* create request, publishes nothing, asks nothing, starts no worker and leaves the
\* cluster and the registry as they were; and unless the lookup or the validation
\* ended it with their error, it printed the resource and returned nil.
C2_DryRunHasNoEffect ==
    (pc # "idle" /\ opts.DryRun) =>
        /\ pc \in {"exec", "done"}
        /\ ~Called("Create")
        /\ ~Called("Push")
        /\ ~Called("Prompt")
        /\ ~Waited
        /\ workloads = cluster0
        /\ pc = "done" =>
              \/ ret.err \in LookupErrors /\ ~Printed("dry run resource")
              \/ /\ ret = Nil
                 /\ out = <<Msg("dry run resource", workload.namespace, workload.name)>>

\* C2, witness: a dry run with --yes, --wait, --tail and --local-path printed the
\* resource.
C2_Witness ==
    /\ pc = "done"
    /\ opts.DryRun /\ opts.Yes /\ opts.Wait /\ opts.Tail /\ opts.LocalPath # ""
    /\ Printed("dry run resource")
    /\ ret = Nil

\* The prompt about `what` was answered with one of the answers.
Answered(what, answers) ==
    \E i \in 1..Len(calls) :
        calls[i].op = "Prompt" /\ calls[i].name = what /\ calls[i].res \in answers

\* C3: Create issues the client's Create, and Update the client's Update, only
\* with --yes or after its prompt was answered yes; when the prompt fails or is
\* answered no, the operation prints `Skipping workload`, returns (false, nil) and
\* leaves the cluster as it was.
C3_WriteIsGatedOnConfirmation ==
    /\ Called("Create") => (opts.Yes \/ Answered("create", {"yes"}))
    /\ Called("Update") => (opts.Yes \/ Answered("update", {"yes"}))
    /\ (Answered("create", {"no", "error"}) \/ Answered("update", {"no", "error"})) =>
          /\ Printed("Skipping workload")
          /\ ok = FALSE
          /\ ret = Nil
          /\ ~Called("Create")
          /\ ~Called("Update")
          /\ workloads = cluster0

\* C3, witness: Update asked, was answered no, and skipped the workload.
C3_Witness ==
    /\ pc = "done"
    /\ Answered("update", {"no"})
    /\ Printed("Skipping workload")
    /\ ~opts.Yes
    /\ workloads = cluster0

\* C4 as stated: `workload create --file -` without --yes (and without --dry-run)
\* returns an error and creates nothing, whatever the cluster holds.
C4_StdinWithoutYesIsAnError ==
    (pc = "done" /\ opts.FilePath = "-" /\ ~opts.FileExists /\ ~opts.Yes /\ ~opts.DryRun) =>
        /\ ret.err # "nil"
        /\ workloads = cluster0

\* C5 as stated: `is ready` is printed, and nil returned after a wait, only when
\* the readiness watcher has observed the Ready condition as True.
C5_ReadyOnlyAfterObservedTrue ==
    Printed("is ready") => observed = "True"

\* C6 as stated: when the deadline has expired before any worker delivered a
\* result (as with a timeout that has passed when the race starts), Exec prints the
\* timeout message and returns the silenced DeadlineExceeded error, also when the
\* watcher has received an event with Ready = True.
C6_ExpiredDeadlineIsATimeout ==
    [][(/\ pc = "race" /\ ctxDone /\ resultsAtExpiry = 0
        /\ observed = "True" /\ pc' = "done") =>
          /\ ret' = SilenceError("DeadlineExceeded")
          /\ Printed("timeout")'
          /\ ~Printed("is ready")']_vars

\* C7 as stated: once the Ready condition was observed as False, Exec never
\* prints `is ready` and returns a silenced error.
C7_NeverReadyAfterObservedFalse ==
    (pc = "done" /\ observed = "False") =>
        /\ ~Printed("is ready")
        /\ ret.silenced

\* The calls of logs.Tail the invocation made.
TailCalls == {i \in 1..Len(calls) : calls[i].op = "Tail"}

\* C8: the wait phase hands wait.Race the readiness watcher alone when neither
\* --tail nor --tail-timestamp is set, and the watcher and the tailer when one of
\* them is set, whether or not --wait is set; each worker makes its one request,
\* the tailer with timestamps exactly when --tail-timestamp is set; without any of
\* the three flags there is no worker and no wait.
C8_WorkersFollowTheFlags ==
    LET n == Len(workers)
        tail == opts.Tail \/ opts.TailTimestamps
    IN  /\ (~opts.Wait /\ ~tail) => ~Waited
        /\ pc \in {"race", "select"} => n > 0
        /\ n > 0 => workers = (IF tail THEN <<"watcher", "tailer">> ELSE <<"watcher">>)
        /\ CountCalls("Watch") = (IF n > 0 THEN 1 ELSE 0)
        /\ CountCalls("Tail") = (IF n > 0 /\ tail THEN 1 ELSE 0)
        /\ \A i \in TailCalls : calls[i].ts = opts.TailTimestamps

\* C8, witness: with --tail-timestamp alone the race runs the watcher and the
\* tailer, and the tailer was asked for timestamps.
C8_Witness ==
    /\ pc = "select"
    /\ ~opts.Wait /\ ~opts.Tail /\ opts.TailTimestamps
    /\ running = {"watcher", "tailer"}
    /\ \E i \in TailCalls : calls[i].ts

\* No read of a namespace was refused.
NamespaceReadsAnswered ==
    \A i \in 1..Len(calls) : calls[i].op = "GetNamespace" => calls[i].res # "Forbidden"

\* C9 as stated, for create without --dry-run: when the workload is not on the
\* cluster and the namespace it is to be created in does not exist, create prints
\* the namespace-not-found message for that namespace, returns an error and issues
\* no create request.
C9_MissingNamespaceIsReported ==
    (/\ pc = "done"
     /\ ~opts.DryRun
     /\ workload.name # ""
     /\ Key(workload) \notin DOMAIN cluster0
     /\ workload.namespace \notin nsExists
     /\ ret.err # "get failed"
     /\ NamespaceReadsAnswered) =>
        /\ \E i \in 1..Len(out) : out[i] = Msg("namespace not found", workload.namespace, "")
        /\ ret.err \notin {"none", "nil"}
        /\ ~Called("Create")
        /\ workloads = cluster0

\* The workload of the --file and the workload handed to the client's Create.
Submitted == pc = "done" /\ Called("Create") /\ opts.FilePath = "wl.yaml"

\* A flag names a source.
GitGiven == opts.GitRepo # "" \/ opts.GitTag # ""

InputWorkload ==
    IF opts.FilePath = "" THEN EmptyWorkload
    ELSE IF opts.FileExists THEN opts.File ELSE opts.Stdin

\* The requests for a workload (lookup, create) the invocation issued.
WorkloadRequests == {i \in 1..Len(calls) : calls[i].op \in {"GetWorkload", "Create"}}

\* C11: the lookup and the create request of an invocation name the name argument
\* when one is given and the name of the input otherwise, and the namespace of the
\* input unless that is empty or --namespace was passed, in which case they name
\* the options' namespace.
C11_RequestsUseTheResolvedPair ==
    \A i \in WorkloadRequests :
        /\ calls[i].name = (IF opts.Name # "" THEN opts.Name ELSE InputWorkload.name)
        /\ calls[i].ns = (IF InputWorkload.namespace = "" \/ opts.NsChanged
                          THEN opts.Namespace ELSE InputWorkload.namespace)

\* C11, witness: a name argument and --namespace over a file that names another
\* workload in another namespace; the workload was looked up and created under the
\* argument's name in the flag's namespace.
C11_Witness ==
    /\ pc = "done"
    /\ opts.Name = "w1" /\ opts.NsChanged /\ opts.Namespace = DefaultNamespace
    /\ opts.FilePath = "wl.yaml"
    /\ opts.File.name = "w2" /\ opts.File.namespace = OtherNamespace
    /\ \E i \in WorkloadRequests : calls[i] = Call("Create", DefaultNamespace, "w1")
    /\ <<DefaultNamespace, "w1">> \in DOMAIN workloads

\* The maven notice was printed.
MavenNoticePrinted ==
    \E i \in 1..Len(out) : out[i] = Msg(MavenOverwrittenNoticeMsg, "", "")

\* --param-yaml holds a "maven=..." entry.
MavenParamYamlGiven ==
    \E i \in 1..Len(opts.ParamsYaml) :
        opts.ParamsYaml[i].key = WorkloadMavenParam /\ ~opts.ParamsYaml[i].remove

\* --param-yaml holds a "maven-" entry.
MavenParamYamlRemoved ==
    \E i \in 1..Len(opts.ParamsYaml) :
        opts.ParamsYaml[i].key = WorkloadMavenParam /\ opts.ParamsYaml[i].remove

\* A maven flag is set.
MavenFlagGiven ==
    opts.MavenArtifact # "" \/ opts.MavenVersion # "" \/ opts.MavenGroup # ""
        \/ opts.MavenType # ""

\* The values of the maven flags written over the maven param of the file.
MavenFlagsOverFile ==
    LET f == opts.File.params[WorkloadMavenParam]
        over(flag, v) == IF flag # "" THEN flag ELSE v
    IN  [present |-> TRUE, text |-> "",
         artifactId |-> over(opts.MavenArtifact, f.artifactId),
         groupId |-> over(opts.MavenGroup, f.groupId),
         version |-> over(opts.MavenVersion, f.version),
         type |-> over(opts.MavenType, f.type)]

\* What the entries of --param-yaml for the maven param make of the file's maven
\* param when they are all applied: the last one decides.
MavenParamYamlOverFile ==
    LET on == {i \in 1..Len(opts.ParamsYaml) : opts.ParamsYaml[i].key = WorkloadMavenParam}
        last == CHOOSE i \in on : \A j \in on : j <= i
    IN  IF on = {} THEN opts.File.params[WorkloadMavenParam]
        ELSE IF opts.ParamsYaml[last].remove THEN NoParam
        ELSE opts.ParamsYaml[last].value

GivenOnCommandLine(f) == SelectSeq(opts.Args, LAMBDA a : a.flag = f)

\* C13: the type of the workload sent to the cluster is the last --type of the
\* command line when --type was given, else the value of TANZU_APPS_TYPE; its
\* labels are those of the --label flags whatever TANZU_APPS_LABEL holds.
C13_EnvironmentDefaults ==
    pc = "done" /\ Called("Create") =>
        LET types == GivenOnCommandLine("type")
            labels == GivenOnCommandLine("label")
        IN  /\ workload.type = (IF types # <<>> THEN types[Len(types)].value
                                ELSE opts.Environ["TANZU_APPS_TYPE"])
            /\ workload.labels = (IF labels # <<>> THEN [NoEntries EXCEPT !["k1"] = "a"]
                                  ELSE NoEntries)

\* C13, witness: with TANZU_APPS_TYPE and TANZU_APPS_LABEL set and no flag on
\* the command line the workload created has the type of the environment and no
\* label; with --type on the command line it has the type of the flag.
C13_Witness ==
    /\ pc = "done" /\ Key(workload) \in DOMAIN workloads
    /\ opts.Environ["TANZU_APPS_TYPE"] = "jar"
    /\ opts.Environ["TANZU_APPS_LABEL"] = "foo=var"
    /\ opts.Args = <<>>
    /\ workloads[Key(workload)].type = "jar"
    /\ workloads[Key(workload)].labels = NoEntries

\* C13, witness of the override: TANZU_APPS_TYPE is set and --type web was given;
\* the workload created has type web.
C13_WitnessOverride ==
    /\ pc = "done" /\ Key(workload) \in DOMAIN workloads
    /\ opts.Environ["TANZU_APPS_TYPE"] = "jar"
    /\ GivenOnCommandLine("type") = <<[flag |-> "type", value |-> "web"]>>
    /\ workloads[Key(workload)].type = "web"

UpdatesAnswered(e) == {i \in 1..Len(calls) : calls[i].op = "Update" /\ calls[i].res = e}

\* C15: when the cluster answers the update with a Conflict, Update prints the
\* conflict message and not `Updated workload`, returns false with the error
\* silenced, has sent that one update and no other, and the cluster is as it was;
\* when it answers with another error, Update returns false with that error, not
\* silenced, and prints neither message.
C15_ConflictIsReportedOnce ==
    /\ UpdatesAnswered("Conflict") # {} =>
          /\ Printed("conflict updating workload")
          /\ ~Printed("Updated workload")
          /\ ok = FALSE
          /\ ret = [err |-> "Conflict", silenced |-> TRUE]
          /\ CountCalls("Update") = 1
          /\ workloads = cluster0
          /\ pc = "done"
    /\ UpdatesAnswered("update failed") # {} =>
          /\ ~Printed("conflict updating workload")
          /\ ~Printed("Updated workload")
          /\ ok = FALSE
          /\ ret = [err |-> "update failed", silenced |-> FALSE]
          /\ CountCalls("Update") = 1
          /\ workloads = cluster0
          /\ pc = "done"

\* C15, witness: the update command with --yes and --wait met a conflict; it
\* ended with the message and the silenced error, and nothing waits.
C15_Witness ==
    /\ pc = "done"
    /\ opts.Yes /\ opts.Wait
    /\ UpdatesAnswered("Conflict") # {}
    /\ Printed("conflict updating workload")
    /\ ret.silenced
    /\ workers = <<>>
    /\ cluster0[Key(workload)] # workload

\* Exec has loaded the input.
Loaded ==
    /\ pc \notin {"idle", "exec"}
    /\ ret.err \notin {"unable to open file", "unable to load file"}

\* C16 as stated: with --file "-" the workload is the one on standard input,
\* whatever the file system holds; with another --file it is the one of that
\* file, and when that file cannot be opened the command ends with `unable to
\* open file` and has sent no request.
C16_DashIsStandardInput ==
    /\ (Loaded /\ opts.FilePath = "-") => workload.image = opts.Stdin.image
    /\ (Loaded /\ opts.FilePath = "wl.yaml") => workload.image = opts.File.image
    /\ (pc = "done" /\ opts.FilePath = "wl.yaml" /\ ~opts.FileExists) =>
          /\ ret = Err("unable to open file")
          /\ calls = <<>>
          /\ workloads = cluster0

\* C16, the input that fails: a file named "-" can be opened, and the workload
\* created is the one of that file, not the one on standard input.
C16_FileNamedDashIsRead ==
    /\ pc = "done"
    /\ opts.FilePath = "-" /\ opts.FileExists
    /\ Key(workload) \in DOMAIN workloads
    /\ workloads[Key(workload)].image = "img-file"

\* The errors that end Exec before it validates the merged workload.
ErrorsBeforeValidation ==
    {"unable to open file", "unable to load file", "get failed", "NotFound", ""}

\* C17: an invocation with --local-path whose workload has no source image ends
\* without a question, without a push to the registry and without a create
\* request, the cluster as it was; unless the lookup ended it before (no input, a lookup
\* error, no namespace, the workload exists), it returns the missing-field error
\* for --source-image and has re-enabled the usage output.
C17_LocalPathNeedsSourceImage ==
    (pc # "idle" /\ pc # "exec" /\ opts.LocalPath # "" /\ workload.srcImage = "") =>
        /\ pc = "done"
        /\ ~Called("Push")
        /\ ~Called("Create")
        /\ ~Called("Prompt")
        /\ workloads = cluster0
        /\ ret.err \notin {"none", "nil"}
        /\ ret.err \notin ErrorsBeforeValidation =>
              /\ ret = Err("missing --source-image")
              /\ silenceUsage = FALSE

\* C17, witness: --local-path with --yes and without --source-image on a cluster
\* with the namespace and without the workload; the lookup passed and Exec ended
\* with the missing-field error and usage output on.
C17_Witness ==
    /\ pc = "done"
    /\ opts.LocalPath = "dir" /\ opts.SourceImage = "" /\ opts.Yes /\ ~opts.DryRun
    /\ Called("GetNamespace")
    /\ ret = Err("missing --source-image")
    /\ silenceUsage = FALSE
    /\ ~Called("Push") /\ ~Called("Create")

\* Exec has merged the flags into the workload of the --file.
Merged ==
    /\ pc \notin {"idle", "exec"}
    /\ opts.FilePath = "wl.yaml"
    /\ ret.err \notin ErrorsBeforeValidation

EntriesOf(wl, flag) ==
    CASE flag = "Labels" -> wl.labels
      [] flag = "Annotations" -> wl.annotations
      [] flag = "Env" -> wl.env
      [] flag = "BuildEnv" -> wl.buildEnv
      [] flag = "Params" ->
            [k \in MapKeys |->
                IF k \in ParamKeys /\ wl.params[k].present THEN wl.params[k].text
                ELSE Absent]

\* What the values of a key/value flag leave of key k: the file's value when no
\* value names k, nothing when the last one that names it is "k-", and the value
\* of that last one otherwise.
LastOccurrence(flag, k) ==
    LET es == opts[flag]
        on == {i \in 1..Len(es) : DeletableKeyValue(es[i])[1] = k}
        last == CHOOSE i \in on : \A j \in on : j <= i
    IN  IF on = {} THEN EntriesOf(opts.File, flag)[k]
        ELSE IF Len(DeletableKeyValue(es[last])) = 1 THEN Absent
        ELSE DeletableKeyValue(es[last])[2]

\* C19: after the merge, for each of --label, --annotation, --param, --env and
\* --build-env and each key, the workload holds what the last value naming the
\* key says (absent after "key-", the value after "key=value") and the file's
\* entry for a key no value names.
C19_LastOccurrenceDecides ==
    Merged =>
        \A flag \in KeyValueFlags : \A k \in MapKeys :
            EntriesOf(workload, flag)[k] = LastOccurrence(flag, k)

\* C19, witness: `--label k1- --label k1=b` over a file with labels k1 and k2;
\* the workload created has k1=b and the file's k2.
C19_Witness ==
    /\ pc = "done"
    /\ opts.Labels = <<"k1-", "k1=b">>
    /\ opts.File.labels = FileEntries
    /\ Key(workload) \in DOMAIN workloads
    /\ workloads[Key(workload)].labels = [FileEntries EXCEPT !["k1"] = "b"]

\* C19, witness of a removal: `--env k2=c --env k1-` over a file with env k1 and
\* k2; the workload created has no k1 and k2=c.
C19_WitnessRemoval ==
    /\ pc = "done"
    /\ opts.Env = <<"k2=c", "k1-">>
    /\ opts.File.env = FileEntries
    /\ Key(workload) \in DOMAIN workloads
    /\ workloads[Key(workload)].env = [FileEntries EXCEPT !["k1"] = Absent, !["k2"] = "c"]

\* C20: an invocation prints the next steps, prints `Waiting for workload` or
\* starts the watcher or the tailer only after Create has sent the create request
\* and the cluster has taken the workload; a create that failed, was declined at
\* the prompt or was skipped is followed by none of these, whatever --wait,
\* --tail and --tail-timestamp say.
C20_WaitOnlyAfterCreated ==
    (Waited \/ Printed("next steps")) =>
        /\ ok
        /\ Called("Create")
        /\ Printed("Created workload")
        /\ Key(workload) \in DOMAIN workloads
        /\ Key(workload) \notin DOMAIN cluster0

\* C20, witness: with --wait and --tail the create request failed; Exec returned
\* the error with no next steps and no wait.
C20_Witness ==
    /\ pc = "done"
    /\ opts.Wait /\ opts.Tail
    /\ Called("Create")
    /\ Key(workload) \notin DOMAIN workloads
    /\ ret = Err("create failed")
    /\ ~Waited
    /\ ~Printed("next steps")

\* C20, witness of a declined create: with --wait the prompt was answered no.
C20_WitnessDeclined ==
    /\ pc = "done"
    /\ opts.Wait
    /\ Answered("create", {"no"})
    /\ Printed("Skipping workload")
    /\ ~Waited
    /\ ~Printed("next steps")


---------------------------------------------------------------------------
(* C21: validateNamespace and a read of the namespace that fails *)

\* The reads of a namespace the invocation made that came back with error e.
NamespaceReads(e) ==
    {i \in 1..Len(calls) : calls[i].op = "GetNamespace" /\ calls[i].res = e}

\* The namespace-not-found message was printed for the namespace ns.
NamespaceReported(ns) ==
    \E i \in 1..Len(out) : out[i] = Msg("namespace not found", ns, "")

\* C21 as stated: whenever the read of the namespace fails, with NotFound, with
\* Forbidden or otherwise, validateNamespace prints the namespace-not-found
\* message for that namespace and Exec returns an error.
C21_FailedReadIsReported ==
    \A i \in 1..Len(calls) :
        (pc = "done" /\ calls[i].op = "GetNamespace" /\ calls[i].res # "nil") =>
            /\ NamespaceReported(calls[i].ns)
            /\ ret.err \notin {"none", "nil"}

\* C21, the refused read: the read of the namespace came back Forbidden,
\* nothing was printed about the namespace, and the create request was sent.
C21_ForbiddenReadIsIgnored ==
    /\ pc = "done"
    /\ NamespaceReads("Forbidden") # {}
    /\ \A i \in NamespaceReads("Forbidden") : ~NamespaceReported(calls[i].ns)
    /\ Called("Create")

---------------------------------------------------------------------------
(* C22: publishing local source gates the create *)

\* C22: without --local-path PublishLocalSource returns (true, nil) and does
\* nothing: no prompt, no output, no push, the workload and the registry as they
\* were, and Exec goes on to Create. With --local-path and without --yes, a
\* publish prompt that is answered no or fails makes it print `Skipping workload`
\* and return (false, nil); Exec then returns nil and the invocation pushes no
\* image, sends no create request, leaves registry and cluster as they were and
\* does not wait.
C22_PublishGatesCreate ==
    [][/\ (pc = "publish" /\ opts.LocalPath = "") =>
              /\ pc' = "create"
              /\ ret' = NoRet
              /\ out' = out
              /\ calls' = calls
              /\ registry' = registry
              /\ workload' = workload
       /\ (pc = "publish" /\ opts.LocalPath # "" /\ ~opts.Yes) =>
              /\ Answered("publish", PromptAnswers)'
              /\ registry' # registry => Answered("publish", {"yes"})'
       /\ Answered("publish", {"no", "error"})' =>
              /\ opts.LocalPath # "" /\ ~opts.Yes
              /\ pc' = "done"
              /\ ret' = Nil
              /\ Printed("Skipping workload")'
              /\ ~Called("Push")'
              /\ ~Called("Create")'
              /\ ~Waited'
              /\ registry' = registry
              /\ workloads' = cluster0']_vars

\* C22, witness: `--local-path dir --source-image img --wait` without --yes; the
\* publish prompt was answered no and Exec returned nil with nothing pushed,
\* nothing created and no wait.
C22_Witness ==
    /\ pc = "done"
    /\ opts.LocalPath # "" /\ ~opts.Yes /\ opts.Wait
    /\ Answered("publish", {"no"})
    /\ ret = Nil
    /\ ~Called("Push")
    /\ ~Called("Create")
    /\ ~Waited
    /\ workloads = cluster0

\* C22, witness without --local-path: the publish step did nothing and the
\* create request was sent.
C22_WitnessNoLocalPath ==
    /\ pc = "done"
    /\ opts.LocalPath = ""
    /\ ~Called("Prompt") /\ ~Called("Push")
    /\ Called("Create")
    /\ registry = {}

---------------------------------------------------------------------------
(* C23: the order of the steps of create's Exec *)

\* The step of Exec a request belongs to: the lookup (1 the workload, 2 the
\* namespace), the publish (3 its prompt, 4 the push), the create (5 its prompt,
\* 6 the request), the wait (7).
StepOf(c) ==
    CASE c.op = "GetWorkload" -> 1
      [] c.op = "GetNamespace" -> 2
      [] c.op = "Prompt" /\ c.name = "publish" -> 3
      [] c.op = "Push" -> 4
      [] c.op = "Prompt" /\ c.name = "create" -> 5
      [] c.op = "Create" -> 6
      [] OTHER -> 7

\* The requests of the invocation came in the order of the steps, each of the
\* first six at most once, the lookup of the workload first.
StepsInOrder ==
    /\ \A i, j \in 1..Len(calls) :
          i < j => /\ StepOf(calls[i]) <= StepOf(calls[j])
                   /\ StepOf(calls[i]) = StepOf(calls[j]) => StepOf(calls[i]) = 7
    /\ calls # <<>> => calls[1].op = "GetWorkload"

\* The workload as Exec has it before the merge of the flags.
Unmerged == ResolveNamespace(opts, ResolveName(opts, InputWorkload))

\* The merged workload does not pass the validation of Exec.
Invalid == ~ValidateWorkload(workload) \/ MissingSourceImage(opts, workload)

\* C23: in every invocation of create the requests come in the order lookup,
\* publish, create, wait. A lookup that fails leaves the workload without the
\* flags merged; a workload that fails the validation ends the invocation with
\* no prompt, no push, no create request and no wait, registry and cluster as they
\* were; the registry changes only in the publish step of a looked-up and valid
\* workload, the cluster only in the create step and, with --local-path, after the
\* push; the wait starts only after the create request was sent and taken; and
\* an invocation in which the publish or the create failed or was declined sends
\* no later request and leaves the cluster as it was.
C23_StepsInOrder ==
    [][/\ StepsInOrder'
       /\ (pc' = "done" /\ ret'.err \in ErrorsBeforeValidation) =>
              workload' \in {EmptyWorkload, Unmerged'}
       /\ (pc' \notin {"idle", "exec"} /\ Invalid') =>
              /\ pc' = "done"
              /\ \A i \in 1..Len(calls') : StepOf(calls'[i]) <= 2
              /\ registry' = registry
              /\ workloads' = cluster0'
       /\ registry' # registry =>
              /\ pc = "publish"
              /\ Called("GetWorkload")
              /\ ~Invalid
              /\ ~Called("Create")'
       /\ workloads' # workloads =>
              /\ pc = "create"
              /\ Called("Create")'
              /\ opts.LocalPath # "" => Called("Push")
              /\ ~Waited
       /\ Waited' => Called("Create")' /\ Key(workload') \in DOMAIN workloads'
       /\ (pc' = "done" /\ ret'.err \notin {"none", "nil"} /\ ~Called("Create")') =>
              ~Waited' /\ workloads' = cluster0'
       /\ (pc' = "done" /\ Called("Create")' /\ Key(workload') \notin DOMAIN workloads') =>
              ~Waited' /\ workloads' = cluster0']_vars

\* C23, witness: with --local-path, --source-image and --wait every step ran:
\* lookup of the workload and of the namespace, push, create request, watch.
C23_Witness ==
    /\ pc = "done"
    /\ opts.LocalPath # "" /\ opts.Wait
    /\ Len(calls) >= 5
    /\ calls[1].op = "GetWorkload"
    /\ calls[2].op = "GetNamespace"
    /\ Called("Push") /\ Called("Create") /\ Called("Watch")
    /\ Key(workload) \in DOMAIN workloads

\* C23, witness of a validation failure: with --local-path, --yes and no source
\* image Exec ended after the lookup with registry and cluster untouched.
C23_WitnessInvalid ==
    /\ pc = "done"
    /\ Invalid
    /\ opts.Yes /\ ~opts.DryRun
    /\ ret.err \notin ErrorsBeforeValidation
    /\ Len(calls) = 2
    /\ workloads = cluster0

---------------------------------------------------------------------------
(* C24: the boolean Create and Update return *)

\* The write of the operation was sent and the cluster took it.
WriteSucceeded ==
    /\ Called("Create") \/ Called("Update")
    /\ ret = Nil
    /\ Key(workload) \in DOMAIN workloads
    /\ workloads[Key(workload)] = workload
    /\ Printed("Created workload") \/ Printed("Updated workload")

\* C24 as stated: the boolean Create and Update return is true only when the
\* write was sent and succeeded; when the write fails or is not sent it is false.
C24_TrueOnlyAfterSuccessfulWrite ==
    pc = "done" => (ok => WriteSucceeded)

\* C24, the failed create: the create request was sent and failed, and Create
\* returned true together with the error.
C24_CreateFailedReturnsTrue ==
    /\ pc = "done"
    /\ Called("Create")
    /\ ret = Err("create failed")
    /\ workloads = cluster0
    /\ ok

\* Update, for comparison: whenever its write fails it returns false.
C24_UpdateFailedReturnsFalse ==
    (pc = "done" /\ Called("Update") /\ ret # Nil) => ~ok

---------------------------------------------------------------------------
(* C25: the name in the messages of the wait phase *)

\* The messages of the wait phase the invocation printed.
WaitMessages ==
    {i \in 1..Len(out) : out[i].msg \in {"Waiting for workload", "timeout", "is ready"}}

\* The names of the workloads the invocation created and watches.
WatchedNames ==
    {calls[i].name : i \in {j \in 1..Len(calls) : calls[j].op \in {"Create", "Watch"}}}

\* C25 as stated: every message of the wait phase names the workload that was
\* created and is being watched, also when the name comes from the --file input.
C25_WaitMessagesNameTheWorkload ==
    \A i \in WaitMessages : WatchedNames = {out[i].name}

\* C25, the name from the input: without a name argument the workload of the
\* --file was created and watched under its own name, became ready, and the
\* messages of the wait phase print the empty name.
C25_WaitMessagesPrintEmptyName ==
    /\ pc = "done"
    /\ opts.Name = "" /\ opts.FilePath # ""
    /\ workload.name # ""
    /\ WatchedNames = {workload.name}
    /\ \E i \in WaitMessages : out[i].msg = "is ready"
    /\ \A i \in WaitMessages : out[i].name = ""

\* With a name argument the messages of the wait phase name the workload.
C25_NameArgumentIsPrinted ==
    opts.Name # "" => C25_WaitMessagesNameTheWorkload

---------------------------------------------------------------------------
(* C26: the namespace of the log tailer *)

\* The namespaces of the requests with operation op.
NamespacesOf(op) ==
    {calls[i].ns : i \in {j \in 1..Len(calls) : calls[j].op = op}}

\* C26 as stated: the log tailer is started in the namespace of the workload that
\* was created and that the readiness watcher observes, also when the namespace
\* comes from the --file input and --namespace was not passed.
C26_TailerInTheWorkloadNamespace ==
    Called("Tail") =>
        /\ NamespacesOf("Tail") = NamespacesOf("Create")
        /\ NamespacesOf("Tail") = NamespacesOf("Watch")

\* C26, the namespace from the input: without --namespace the workload of the
\* input was created and is watched in the namespace it names, and the tailer
\* was started in the default namespace.
C26_TailerInTheDefaultNamespace ==
    /\ Called("Tail")
    /\ ~opts.NsChanged /\ opts.FilePath # ""
    /\ workload.namespace = OtherNamespace
    /\ Key(workload) \in DOMAIN workloads
    /\ NamespacesOf("Create") = {OtherNamespace}
    /\ NamespacesOf("Watch") = {OtherNamespace}
    /\ NamespacesOf("Tail") = {DefaultNamespace}

\* When the namespace of the workload is the options' the tailer is started in it.
C26_OptionsNamespaceIsTailed ==
    workload.namespace = opts.Namespace => C26_TailerInTheWorkloadNamespace

---------------------------------------------------------------------------
(* C27: the namespace create checks *)

\* C27 as stated: the namespace create reads after the workload was not found is
\* the namespace in which it looked the workload up, and when no read of a
\* namespace is refused a create request is sent only for a namespace that
\* exists.
C27_ChecksTheWorkloadNamespace ==
    /\ NamespacesOf("GetNamespace") \subseteq NamespacesOf("GetWorkload")
    /\ NamespaceReadsAnswered => NamespacesOf("Create") \subseteq nsExists

\* C27, the namespace from the input: without --namespace the input names a
\* namespace that does not exist; create looked the workload up there, read the
\* default namespace, which exists, and sent the create request for the
\* namespace that does not exist.
C27_CreateSentToMissingNamespace ==
    /\ pc = "done"
    /\ ~opts.NsChanged /\ opts.FilePath # ""
    /\ OtherNamespace \notin nsExists
    /\ NamespacesOf("GetWorkload") = {OtherNamespace}
    /\ NamespacesOf("GetNamespace") = {DefaultNamespace}
    /\ NamespaceReads("nil") # {}
    /\ NamespacesOf("Create") = {OtherNamespace}
    /\ ~NamespaceReported(OtherNamespace)

\* When the namespace of the workload is the options' the namespace that is
\* read is the workload's, and no create request is sent for a missing one.
C27_OptionsNamespaceIsChecked ==
    workload.namespace = opts.Namespace => C27_ChecksTheWorkloadNamespace
=============================================================================
